---------------------------- MODULE Spec2Model ----------------------------
(***************************************************************************)
(* A model of the Spano nutrition-tracking backend (src/main.py): the two  *)
(* process-wide stores `users` and `meals`, the five request handlers and  *)
(* the pure helpers they call.                                             *)
(*                                                                         *)
(* Strings are sequences of one-character strings, so that strip, lower,   *)
(* startswith and split are computed character by character.  Nutrient     *)
(* values are IEEE-754 binary64 numbers, held exactly as naturals counted   *)
(* in units of 2^-54 and split in three limbs, so that `+=` rounds as the   *)
(* interpreter's float addition does.                                       *)
(***************************************************************************)
EXTENDS Integers, Sequences, FiniteSets, Bags, TLC

(***************************************************************************)
(* The bound of the model: registered users, logged meals and clock ticks  *)
(* together.                                                               *)
(***************************************************************************)
MaxSize == 5

(***************************************************************************)
(* str: sequences of characters.                                           *)
(***************************************************************************)
UpperLetters ==
  <<"A","B","C","D","E","F","G","H","I","J","K","L","M",
    "N","O","P","Q","R","S","T","U","V","W","X","Y","Z">>

LowerLetters ==
  <<"a","b","c","d","e","f","g","h","i","j","k","l","m",
    "n","o","p","q","r","s","t","u","v","w","x","y","z">>

\* The characters str.strip() removes (the ASCII ones).
Whitespace == {" ", "\t", "\n", "\r", "\f"}

LowerChar(c) ==
  IF \E i \in DOMAIN UpperLetters : UpperLetters[i] = c
  THEN LowerLetters[CHOOSE i \in DOMAIN UpperLetters : UpperLetters[i] = c]
  ELSE c

\* str.lower()
lower(s) == [i \in DOMAIN s |-> LowerChar(s[i])]

\* str.strip(): drops the leading and the trailing whitespace.
strip(s) ==
  LET keep == {i \in DOMAIN s : s[i] \notin Whitespace}
  IN  IF keep = {} THEN <<>>
      ELSE LET lo == CHOOSE i \in keep : \A j \in keep : i <= j
               hi == CHOOSE i \in keep : \A j \in keep : j <= i
           IN  SubSeq(s, lo, hi)

\* str.startswith(prefix)
startswith(s, prefix) ==
  /\ Len(prefix) <= Len(s)
  /\ SubSeq(s, 1, Len(prefix)) = prefix

\* s[n:]
slice_from(s, n) == SubSeq(s, n + 1, Len(s))

\* s.split(sep, 1) for a one-character sep: at most two parts.
split_first(s, sep) ==
  LET at == {i \in DOMAIN s : s[i] = sep}
  IN  IF at = {} THEN <<s>>
      ELSE LET k == CHOOSE i \in at : \A j \in at : i <= j
           IN  <<SubSeq(s, 1, k - 1), SubSeq(s, k + 1, Len(s))>>

\* s.split(sep) for a one-character sep: every separator cuts, so the
\* result has one part more than there are separators.
RECURSIVE split(_, _)
split(s, sep) ==
  LET p == split_first(s, sep)
  IN  IF Len(p) = 1 THEN p ELSE <<p[1]>> \o split(p[2], sep)

(***************************************************************************)
(* float: non-negative binary64 values below 2^12, as <<h, m, l>> with the *)
(* value (h * 2^44 + m * 2^22 + l) * 2^-54.  Every binary64 number in      *)
(* [0.25, 4096) is such a natural with at most 53 significant bits.        *)
(***************************************************************************)
LimbBits == 22
Limb == 2 ^ LimbBits
Mantissa == 53

Zero == <<0, 0, 0>>

RECURSIVE BitLen1(_)
BitLen1(x) == IF x = 0 THEN 0 ELSE 1 + BitLen1(x \div 2)

BitLen(a) ==
  IF a[1] > 0 THEN 2 * LimbBits + BitLen1(a[1])
  ELSE IF a[2] > 0 THEN LimbBits + BitLen1(a[2])
  ELSE BitLen1(a[3])

\* Exact sum of two limb triples.
LimbAdd(a, b) ==
  LET l == a[3] + b[3]
      m == a[2] + b[2] + (l \div Limb)
      h == a[1] + b[1] + (m \div Limb)
  IN  <<h, m % Limb, l % Limb>>

\* The binary64 nearest to a + num/den units (0 <= num < den), ties to even.
RoundNearestEven(a, num, den) ==
  LET n == BitLen(a)
      k == IF n > Mantissa THEN n - Mantissa ELSE 0
      q == 2 ^ k
      low == a[3] % q
      kept == <<a[1], a[2], a[3] - low>>
      odd == ((a[3] \div q) % 2) = 1
      twice == 2 * (low * den + num)
      up == twice > q * den \/ (twice = q * den /\ odd)
  IN  IF up THEN LimbAdd(kept, <<0, 0, q>>) ELSE kept

\* float + float
FAdd(a, b) == RoundNearestEven(LimbAdd(a, b), 0, 1)

\* The value of a numeric literal with at most one decimal, given as its
\* number of tenths: the binary64 nearest to tenths / 10.
Literal(tenths) ==
  LET h == tenths * 2 ^ (Mantissa + 1 - 2 * LimbBits)
      qh == h \div 10
      rm == (h % 10) * Limb
      qm == rm \div 10
      rl == (rm % 10) * Limb
      ql == rl \div 10
  IN  RoundNearestEven(<<qh, qm, ql>>, rl % 10, 10)

(***************************************************************************)
(* food_database: the literals of the source in tenths.                    *)
(***************************************************************************)
rice == <<"r","i","c","e">>
dal == <<"d","a","l">>
cucumber == <<"c","u","c","u","m","b","e","r">>
chicken == <<"c","h","i","c","k","e","n">>
bread == <<"b","r","e","a","d">>
milk == <<"m","i","l","k">>
egg == <<"e","g","g">>
banana == <<"b","a","n","a","n","a">>
apple == <<"a","p","p","l","e">>
salad == <<"s","a","l","a","d">>
pasta == <<"p","a","s","t","a">>
fish == <<"f","i","s","h">>
beef == <<"b","e","e","f">>
potato == <<"p","o","t","a","t","o">>
tomato == <<"t","o","m","a","t","o">>
onion == <<"o","n","i","o","n">>
carrot == <<"c","a","r","r","o","t">>
spinach == <<"s","p","i","n","a","c","h">>
yogurt == <<"y","o","g","u","r","t">>
cheese == <<"c","h","e","e","s","e">>

Entry(calories, protein, carbs, fiber) ==
  [calories |-> Literal(calories), protein |-> Literal(protein),
   carbs |-> Literal(carbs), fiber |-> Literal(fiber)]

food_database ==
  (rice :> Entry(1300, 27, 280, 4)) @@
  (dal :> Entry(1160, 68, 200, 75)) @@
  (cucumber :> Entry(160, 7, 36, 5)) @@
  (chicken :> Entry(1650, 310, 0, 0)) @@
  (bread :> Entry(2650, 90, 490, 27)) @@
  (milk :> Entry(420, 34, 50, 0)) @@
  (egg :> Entry(1550, 130, 11, 0)) @@
  (banana :> Entry(890, 11, 230, 26)) @@
  (apple :> Entry(520, 3, 140, 24)) @@
  (salad :> Entry(200, 20, 40, 15)) @@
  (pasta :> Entry(1310, 50, 250, 18)) @@
  (fish :> Entry(840, 180, 0, 0)) @@
  (beef :> Entry(2500, 260, 0, 0)) @@
  (potato :> Entry(770, 20, 170, 22)) @@
  (tomato :> Entry(180, 9, 39, 12)) @@
  (onion :> Entry(400, 11, 93, 17)) @@
  (carrot :> Entry(410, 9, 100, 28)) @@
  (spinach :> Entry(230, 29, 36, 22)) @@
  (yogurt :> Entry(590, 100, 36, 0)) @@
  (cheese :> Entry(1130, 70, 4, 0))

\* {"calories": 0, "protein": 0, "carbs": 0, "fiber": 0}
NoNutrients == [calories |-> Zero, protein |-> Zero, carbs |-> Zero, fiber |-> Zero]

\* The four `+=` of one loop iteration.
AddNutrients(total, nutrients) ==
  [calories |-> FAdd(total.calories, nutrients.calories),
   protein |-> FAdd(total.protein, nutrients.protein),
   carbs |-> FAdd(total.carbs, nutrients.carbs),
   fiber |-> FAdd(total.fiber, nutrients.fiber)]

\* The loop of calculate_nutrients from item i on, total_nutrients so far.
RECURSIVE nutrients_from(_, _, _)
nutrients_from(food_items, i, total_nutrients) ==
  IF i > Len(food_items) THEN total_nutrients
  ELSE LET item_lower == strip(lower(food_items[i]))
       IN  nutrients_from(food_items, i + 1,
             IF item_lower \in DOMAIN food_database
             THEN AddNutrients(total_nutrients, food_database[item_lower])
             ELSE total_nutrients)

calculate_nutrients(food_items) == nutrients_from(food_items, 1, NoNutrients)

(***************************************************************************)
(* calculate_bmr.  Weight and height are given in tenths (kg, cm); the     *)
(* result is in hundredths of a calorie, the formula evaluated in units of *)
(* 10^-4 and rounded to two decimals.                                      *)
(***************************************************************************)
\* A call either returns a value or raises.
Returns(value) == [raised |-> "", value |-> value]
Raises(exception) == [raised |-> exception, value |-> 0]

calculate_bmr(weight, height, age, gender) ==
  IF gender = "male"
  THEN Returns((883620 + 13397 * weight + 4799 * height - 56770 * age + 50) \div 100)
  ELSE IF gender = "female"
  THEN Returns((4475930 + 9247 * weight + 3098 * height - 43300 * age + 50) \div 100)
  ELSE Raises("ValueError")

(***************************************************************************)
(* The state: the two module-level dictionaries, the wall clock in whole   *)
(* seconds, and the last request with its response.  A dict is the         *)
(* sequence of its values in insertion order; every value carries its key  *)
(* in "id".  `before` holds the dictionaries as the last request found     *)
(* them; issued_users and issued_meals list what the successful responses  *)
(* returned; inflight is the bag of the requests that were received and    *)
(* whose handler has not run yet.                                          *)
(***************************************************************************)
VARIABLES users, meals, now, request, result, before, issued_users, issued_meals,
          inflight

vars == <<users, meals, now, request, result, before, issued_users, issued_meals,
          inflight>>

keys(d) == {d[i].id : i \in DOMAIN d}

\* d[key]
getitem(d, key) == d[CHOOSE i \in DOMAIN d : d[i].id = key]

\* d[key] = value: a new key is appended, an existing key keeps its place.
setitem(d, key, value) ==
  IF key \in keys(d)
  THEN [i \in DOMAIN d |-> IF d[i].id = key THEN value ELSE d[i]]
  ELSE Append(d, value)

\* How a handler ends: the dictionaries as it leaves them and the response.
\* raise HTTPException(status_code, detail)
HTTPException(us, ms, status_code, detail) ==
  [users |-> us, meals |-> ms,
   result |-> [status_code |-> status_code, detail |-> detail, body |-> <<>>]]

\* return body, sent with the route's status code.
Return(us, ms, status_code, body) ==
  [users |-> us, meals |-> ms,
   result |-> [status_code |-> status_code, detail |-> "", body |-> body]]

UserNotFound == "User not found"
InvalidMealType == "Invalid meal type. Must be breakfast, lunch, or dinner"
InvalidFormatPrefix == "Invalid message format. Must start with 'log '"
InvalidFormatParts == "Invalid message format. Expected: 'log [meal_type]: [food_items]'"
NoFoodItems == "No food items provided"
InvalidDateFormat == "Invalid date format. Use YYYY-MM-DD"
RegistrationFailed == "Registration failed: Gender must be 'male' or 'female'"

breakfast == <<"b","r","e","a","k","f","a","s","t">>
lunch == <<"l","u","n","c","h">>
dinner == <<"d","i","n","n","e","r">>
valid_meals == {breakfast, lunch, dinner}

\* A user identifier made of the second alone.
new_user_id_by_second == "user_" \o ToString(now)

\* f"user_{len(users) + 1}_{int(datetime.now().timestamp())}"
new_user_id == "user_" \o ToString(Len(users) + 1) \o "_" \o ToString(now)

\* An identifier made of the second alone.
new_meal_id_by_second == "meal_" \o ToString(now)

\* f"meal_{len(meals) + 1}_{int(datetime.now().timestamp())}"
new_meal_id == "meal_" \o ToString(Len(meals) + 1) \o "_" \o ToString(now)

\* A webhook meal identifier made of the second alone.
new_webhook_meal_id_by_second == "webhook_meal_" \o ToString(now)

\* f"webhook_meal_{len(meals) + 1}_{int(datetime.now().timestamp())}"
new_webhook_meal_id == "webhook_meal_" \o ToString(Len(meals) + 1) \o "_" \o ToString(now)

\* POST /register
register_user(user_data) ==
  LET call == calculate_bmr(user_data.weight, user_data.height, user_data.age,
                            user_data.gender)
      bmr == call.value
      user_id == new_user_id
  IN  IF call.raised # ""
      THEN HTTPException(users, meals, 400, RegistrationFailed)
      ELSE Return(setitem(users, user_id,
                    [id |-> user_id, name |-> user_data.name,
                     age |-> user_data.age, weight |-> user_data.weight,
                     height |-> user_data.height, gender |-> user_data.gender,
                     goal |-> user_data.goal, bmr |-> bmr, created_at |-> now]),
                  meals, 201,
                  [status |-> "success", user_id |-> user_id, bmr |-> bmr])

\* user in users
user_exists(user) == user \in keys(users)

\* No exception raised.
NoError == [status_code |-> 0, detail |-> ""]
Error(status_code, detail) == [status_code |-> status_code, detail |-> detail]

\* The checks in the other order.
log_meals_error_type_first(meal_data) ==
  IF lower(meal_data.meal) \notin valid_meals
  THEN Error(400, InvalidMealType)
  ELSE IF ~user_exists(meal_data.user)
  THEN Error(404, UserNotFound)
  ELSE NoError

\* POST /log_meals: the checks before anything is computed or stored.
log_meals_error(meal_data) ==
  IF ~user_exists(meal_data.user)
  THEN Error(404, UserNotFound)
  ELSE IF lower(meal_data.meal) \notin valid_meals
  THEN Error(400, InvalidMealType)
  ELSE NoError

\* POST /log_meals
log_meals(meal_data) ==
  LET error == log_meals_error(meal_data)
      nutrients == calculate_nutrients(meal_data.items)
      meal_id == new_meal_id
  IN  IF error # NoError
      THEN HTTPException(users, meals, error.status_code, error.detail)
      ELSE Return(users,
                  setitem(meals, meal_id,
                    [id |-> meal_id, user_id |-> meal_data.user,
                     meal_type |-> lower(meal_data.meal),
                     food_items |-> meal_data.items,
                     logged_at |-> now, nutrients |-> nutrients]),
                  201,
                  [status |-> "success", meal_id |-> meal_id,
                   nutrients |-> nutrients])

\* A listing that forgets the owner.
meals_of_anyone(user) == meals

\* [meal for meal in meals.values() if meal["user_id"] == user]
meals_of(user) == SelectSeq(meals, LAMBDA meal : meal.user_id = user)

\* GET /status/{user}: the loop over user_meals from meal i on.
RECURSIVE status_total(_, _, _)
status_total(user_meals, i, total_nutrients) ==
  IF i > Len(user_meals) THEN total_nutrients
  ELSE status_total(user_meals, i + 1,
                    AddNutrients(total_nutrients, user_meals[i].nutrients))

get_user_status(user) ==
  IF ~user_exists(user)
  THEN HTTPException(users, meals, 404, UserNotFound)
  ELSE LET user_meals == meals_of(user)
           total_nutrients == status_total(user_meals, 1, NoNutrients)
       IN  Return(users, meals, 200,
                  [status |-> "success", user |-> user,
                   user_info |-> [name |-> getitem(users, user).name,
                                  bmr |-> getitem(users, user).bmr],
                   consumed_nutrients |-> total_nutrients,
                   total_meals |-> Len(user_meals)])

(***************************************************************************)
(* Dates.  datetime.strptime(date, "%Y-%m-%d") accepts exactly four digits,*)
(* "-", a month 1..12 as 1[0-2] | 0[1-9] | [1-9], "-", and a day as        *)
(* 3[0-1] | [1-2]\d | 0[1-9] | [1-9] | " "[1-9], with nothing left over,   *)
(* and the date must exist.  A date is held as its number of days since    *)
(* 1970-01-01.                                                             *)
(***************************************************************************)
Digits == <<"0","1","2","3","4","5","6","7","8","9">>

IsDigit(c) == \E i \in DOMAIN Digits : Digits[i] = c

DigitValue(c) == (CHOOSE i \in DOMAIN Digits : Digits[i] = c) - 1

IsLeap(year) == (year % 4 = 0 /\ year % 100 # 0) \/ year % 400 = 0

DaysInMonth(year, month) ==
  IF month = 2 THEN (IF IsLeap(year) THEN 29 ELSE 28)
  ELSE IF month \in {4, 6, 9, 11} THEN 30 ELSE 31

\* date(year, month, day) as days since 1970-01-01.
DaysFromCivil(year, month, day) ==
  LET y == IF month <= 2 THEN year - 1 ELSE year
      era == y \div 400
      yoe == y - era * 400
      mp == IF month > 2 THEN month - 3 ELSE month + 9
      doy == (153 * mp + 2) \div 5 + day - 1
      doe == yoe * 365 + yoe \div 4 - yoe \div 100 + doy
  IN  era * 146097 + doe - 719468

\* The number a month or day field stands for, 0 when the field is not one
\* the directive matches.
FieldValue(field, leading_space) ==
  IF Len(field) = 1 /\ IsDigit(field[1]) /\ field[1] # "0"
  THEN DigitValue(field[1])
  ELSE IF Len(field) = 2 /\ IsDigit(field[1]) /\ IsDigit(field[2])
  THEN 10 * DigitValue(field[1]) + DigitValue(field[2])
  ELSE IF leading_space /\ Len(field) = 2 /\ field[1] = " "
          /\ IsDigit(field[2]) /\ field[2] # "0"
  THEN DigitValue(field[2])
  ELSE 0

\* datetime.strptime(s, "%Y-%m-%d").date()
strptime_date(s) ==
  IF Len(s) < 5 \/ s[5] # "-" \/ \E i \in 1 .. 4 : ~IsDigit(s[i])
  THEN Raises("ValueError")
  ELSE LET rest == split_first(slice_from(s, 5), "-")
           year == 1000 * DigitValue(s[1]) + 100 * DigitValue(s[2])
                   + 10 * DigitValue(s[3]) + DigitValue(s[4])
           month == IF Len(rest) = 2 THEN FieldValue(rest[1], FALSE) ELSE 0
           day == IF Len(rest) = 2 THEN FieldValue(rest[2], TRUE) ELSE 0
       IN  IF year < 1 \/ month \notin 1 .. 12 \/ day < 1
              \/ day > DaysInMonth(year, month)
           THEN Raises("ValueError")
           ELSE Returns(DaysFromCivil(year, month, day))

SecondsPerDay == 24 * 60 * 60

\* The timestamp itself, its time of day kept.
date_of_with_time(logged_at) == logged_at

\* datetime.fromisoformat(meal["logged_at"]).date()
date_of(logged_at) == logged_at \div SecondsPerDay

\* The optional query parameter: None, or a string.
None == [is_none |-> TRUE, str |-> <<>>]
Str(s) == [is_none |-> FALSE, str |-> s]

\* `if date:`
truthy(date) == ~date.is_none /\ date.str # <<>>

\* GET /meals/{user}
get_user_meals(user, date) ==
  IF ~user_exists(user)
  THEN HTTPException(users, meals, 404, UserNotFound)
  ELSE LET user_meals == meals_of(user)
           call == strptime_date(date.str)
           filter_date == call.value
           filtered_meals ==
             SelectSeq(user_meals, LAMBDA meal : date_of(meal.logged_at) = filter_date)
           listed == IF truthy(date) THEN filtered_meals ELSE user_meals
       IN  IF truthy(date) /\ call.raised # ""
           THEN HTTPException(users, meals, 400, InvalidDateFormat)
           ELSE Return(users, meals, 200,
                       [status |-> "success", user |-> user, meals |-> listed,
                        total_meals |-> Len(listed)])

(***************************************************************************)
(* POST /webhook                                                           *)
(***************************************************************************)
default_user == "webhook_user"

log_prefix == <<"l","o","g"," ">>

\* A prefix test that ignores case.
has_log_prefix_any_case(message) == startswith(lower(message), log_prefix)

\* message.startswith("log ")
has_log_prefix(message) == startswith(message, log_prefix)

\* A split on every colon.
webhook_parts_every_colon(message) == split(slice_from(message, 4), ":")

\* message[4:].split(":", 1)
webhook_parts(message) == split_first(slice_from(message, 4), ":")

\* Only the first comprehension: the empty tokens stay.
webhook_food_items_unfiltered(food_items_str) ==
  LET tokens == split(food_items_str, ",")
  IN  [i \in DOMAIN tokens |-> strip(tokens[i])]

\* The two comprehensions: strip every token, keep the non-empty ones.
webhook_food_items(food_items_str) ==
  LET tokens == split(food_items_str, ",")
      stripped == [i \in DOMAIN tokens |-> strip(tokens[i])]
  IN  SelectSeq(stripped, LAMBDA item : item # <<>>)

\* A category that keeps its case.
webhook_meal_type_as_typed(part) == strip(part)

\* parts[0].strip().lower()
webhook_meal_type(part) == lower(strip(part))

\* A handler that never provisions.
provision_nobody(us) == us

\* The default user stored anew by every call.
provision_every_time(us) ==
  setitem(us, default_user,
    [id |-> default_user, name |-> "Webhook User", age |-> 25,
     weight |-> 700, height |-> 1700, gender |-> "male",
     goal |-> "general", bmr |-> calculate_bmr(700, 1700, 25, "male").value,
     created_at |-> now])

\* `if default_user not in users: users[default_user] = {...}`
provision_default_user(us) ==
  IF default_user \notin keys(us)
  THEN setitem(us, default_user,
         [id |-> default_user, name |-> "Webhook User", age |-> 25,
          weight |-> 700, height |-> 1700, gender |-> "male",
          goal |-> "general", bmr |-> calculate_bmr(700, 1700, 25, "male").value,
          created_at |-> now])
  ELSE us

\* The checks of the handler, in its order, on the stripped message.
webhook_error(message) ==
  LET parts == webhook_parts(message)
  IN  IF ~has_log_prefix(message)
      THEN Error(400, InvalidFormatPrefix)
      ELSE IF Len(parts) # 2
      THEN Error(400, InvalidFormatParts)
      ELSE IF webhook_meal_type(parts[1]) \notin valid_meals
      THEN Error(400, InvalidMealType)
      ELSE IF webhook_food_items(strip(parts[2])) = <<>>
      THEN Error(400, NoFoodItems)
      ELSE NoError

\* The handler past its checks: provision the default user, store the meal.
webhook_store(message) ==
  LET parts == webhook_parts(message)
      meal_type == webhook_meal_type(parts[1])
      food_items == webhook_food_items(strip(parts[2]))
      meal_id == new_webhook_meal_id
      nutrients == calculate_nutrients(food_items)
  IN  Return(provision_default_user(users),
             setitem(meals, meal_id,
               [id |-> meal_id, user_id |-> default_user,
                meal_type |-> meal_type, food_items |-> food_items,
                logged_at |-> now, nutrients |-> nutrients]),
             200,
             [status |-> "success", meal_id |-> meal_id,
              meal_type |-> meal_type, food_items |-> food_items,
              nutrients |-> nutrients])

\* A handler that provisions the default user before it checks the message.
webhook_handler_provision_first(webhook_data) ==
  LET message == strip(webhook_data.message)
      error == webhook_error(message)
  IN  IF error # NoError
      THEN HTTPException(provision_default_user(users), meals,
                         error.status_code, error.detail)
      ELSE webhook_store(message)

webhook_handler(webhook_data) ==
  LET message == strip(webhook_data.message)
      error == webhook_error(message)
  IN  IF error # NoError
      THEN HTTPException(users, meals, error.status_code, error.detail)
      ELSE webhook_store(message)

(***************************************************************************)
(* Requests.  A request reaches its handler as a validated model: a        *)
(* UserRegistration has a Gender and positive numbers, a MealLogging has   *)
(* at least one item.                                                      *)
(***************************************************************************)
UserRegistration ==
  { [name |-> "John Doe", age |-> 30, weight |-> 755, height |-> 1750,
     gender |-> "male", goal |-> "weight loss"],
    [name |-> "Alice Johnson", age |-> 28, weight |-> 650, height |-> 1650,
     gender |-> "female", goal |-> "maintain weight"] }

honey == <<"h","o","n","e","y">>
snack == <<"s","n","a","c","k">>

\* A user identifier of a request: every key of the registry, the
\* webhook's identity and an identifier that is never a key.
UserIds == keys(users) \cup {default_user, "nonexistent_user"}

MealTexts == {<<"L","u","n","c","h">>, snack}

ItemLists == {<<<<"R","i","c","e"," ">>, chicken, honey, rice>>}

WebhookMessage ==
  { log_prefix \o dinner \o <<":"," ">> \o rice \o <<","," ">> \o dal \o <<",">> \o chicken,
    log_prefix \o snack \o <<":">> \o rice,
    log_prefix \o lunch,
    log_prefix \o lunch \o <<":"," ",","," ">>,
    <<"h","e","l","l","o">> }

DateFilters ==
  { Str(<<"1","9","7","0","-","0","1","-","0","1">>),
    Str(<<"0","1","/","0","1","/","1","9","7","0">>) }

\* What every handler call leaves behind: the dictionaries and the response
\* of its outcome, the request, the dictionaries as it found them, and the
\* identifiers handed out so far.
Outcome(req, outcome) ==
  /\ users' = outcome.users
  /\ meals' = outcome.meals
  /\ result' = outcome.result
  /\ request' = req
  /\ before' = [users |-> users, meals |-> meals]
  /\ issued_users' =
       IF req.op = "register" /\ outcome.result.status_code = 201
       THEN Append(issued_users, outcome.result.body.user_id)
       ELSE issued_users
  /\ issued_meals' =
       IF req.op \in {"log_meals", "webhook"}
          /\ outcome.result.status_code \in {200, 201}
       THEN Append(issued_meals,
                   [meal_id |-> outcome.result.body.meal_id,
                    user_id |-> IF req.op = "webhook" THEN default_user ELSE req.user,
                    nutrients |-> outcome.result.body.nutrients])
       ELSE issued_meals
  /\ UNCHANGED now

\* A request handled as soon as it is received.
Handle(req, outcome) == Outcome(req, outcome) /\ UNCHANGED inflight

NoRequest == [op |-> "none"]
NoResult == [status_code |-> 0, detail |-> "", body |-> <<>>]

Size == Len(users) + Len(meals) + now

Init ==
  /\ users = <<>>
  /\ meals = <<>>
  /\ now = 0
  /\ request = NoRequest
  /\ result = NoResult
  /\ before = [users |-> <<>>, meals |-> <<>>]
  /\ issued_users = <<>>
  /\ issued_meals = <<>>
  /\ inflight = EmptyBag

Register ==
  \E user_data \in UserRegistration :
    /\ Size < MaxSize
    /\ Handle([op |-> "register", user_data |-> user_data], register_user(user_data))

LogMeals ==
  \E user \in UserIds, meal \in MealTexts, items \in ItemLists :
    /\ Size < MaxSize
    /\ Handle([op |-> "log_meals", user |-> user, meal |-> meal, items |-> items],
              log_meals([user |-> user, meal |-> meal, items |-> items]))

Webhook ==
  \E message \in WebhookMessage :
    /\ Size < MaxSize
    /\ Handle([op |-> "webhook", message |-> message],
              webhook_handler([message |-> message]))

GetUserMeals ==
  \E user \in UserIds, date \in DateFilters :
    Handle([op |-> "meals", user |-> user, date |-> date], get_user_meals(user, date))

GetUserStatus ==
  \E user \in UserIds :
    Handle([op |-> "status", user |-> user], get_user_status(user))

\* The wall clock moves on between requests.
Tick ==
  /\ Size < MaxSize
  /\ now' = now + 1
  /\ UNCHANGED <<users, meals, request, result, before, issued_users, issued_meals,
               inflight>>

Next == Register \/ LogMeals \/ Webhook \/ GetUserMeals \/ GetUserStatus \/ Tick

Spec == Init /\ [][Next]_vars

(***************************************************************************)
(* The webhook alone: the first request of a process is a webhook message  *)
(* put together from a lead, a keyword, a category, a colon, an item text  *)
(* and a tail.                                                             *)
(***************************************************************************)
Leads == {<<>>, <<" ">>, <<"\t">>}

Keywords ==
  { log_prefix, <<"L","o","g"," ">>, <<"l","o","g">>, <<"l","o","g","\t">>,
    <<"l","o","g","s"," ">>, <<>> }

Categories ==
  { lunch, <<"D","i","n","n","e","r">>, <<" ">> \o breakfast \o <<" ">>, snack, <<>> }

Colons == {<<":">>, <<":"," ">>, <<>>}

ItemTexts ==
  { rice,
    rice \o <<","," ">> \o dal,
    rice \o <<",",",">> \o dal,
    <<" ","R","i","c","e"," ",","," ">> \o <<"C","h","i","c","k","e","n",",">>,
    <<",">>,
    <<" ",","," ">>,
    <<>>,
    <<"a",":","b",","," ">> \o rice,
    rice \o <<" ">> \o dal }

Tails == {<<>>, <<" ">>}

Messages ==
  { lead \o keyword \o category \o colon \o items \o tail :
      lead \in Leads, keyword \in Keywords, category \in Categories,
      colon \in Colons, items \in ItemTexts, tail \in Tails }

FirstWebhook ==
  \E message \in Messages :
    /\ request = NoRequest
    /\ Handle([op |-> "webhook", message |-> message],
              webhook_handler([message |-> message]))

NextWebhook == FirstWebhook

SpecWebhook == Init /\ [][NextWebhook]_vars

(***************************************************************************)
(* The two ingestion paths side by side: a user registers, logs a meal     *)
(* through /log_meals, and the same category and items are then sent to    *)
(* the webhook as "log <category>: <item>, <item>, ...".                    *)
(***************************************************************************)
PathCategories ==
  { lunch, <<"D","i","n","n","e","r">>, <<"B","R","E","A","K","F","A","S","T">>,
    snack, <<>>, <<" ">> \o lunch, lunch \o <<" ">>, lunch \o <<":","x">> }

PathItems ==
  { <<rice>>,
    <<<<"R","i","c","e">>, dal>>,
    <<rice, chicken, rice>>,
    <<honey, <<"b","r","o","w","n"," ","r","i","c","e">>>>,
    <<<<"a",":","b">>, milk>>,
    <<rice \o <<",">> \o dal>> }

\* ", ".join(items)
RECURSIVE join(_)
join(items) ==
  IF Len(items) = 1 THEN items[1]
  ELSE items[1] \o <<",", " ">> \o join(Tail(items))

\* f"log {category}: {', '.join(items)}"
webhook_message(category, items) ==
  log_prefix \o category \o <<":", " ">> \o join(items)

PathRegister ==
  \E user_data \in UserRegistration :
    /\ request = NoRequest
    /\ Handle([op |-> "register", user_data |-> user_data], register_user(user_data))

PathLogMeals ==
  \E meal \in PathCategories, items \in PathItems :
    /\ request.op = "register"
    /\ Handle([op |-> "log_meals", user |-> result.body.user_id,
               meal |-> meal, items |-> items],
              log_meals([user |-> result.body.user_id, meal |-> meal, items |-> items]))

\* The webhook request keeps what the message was made of and what
\* /log_meals answered.
PathWebhook ==
  /\ request.op = "log_meals"
  /\ Handle([op |-> "webhook",
             message |-> webhook_message(request.meal, request.items),
             meal |-> request.meal, items |-> request.items, logged |-> result],
            webhook_handler([message |-> webhook_message(request.meal, request.items)]))

NextPaths == PathRegister \/ PathLogMeals \/ PathWebhook

SpecPaths == Init /\ [][NextPaths]_vars

(***************************************************************************)
(* calculate_nutrients alone: it is called on a list of food names, and    *)
(* then on the same names in another order.                                *)
(***************************************************************************)
MaxItems == 3

FoodNames ==
  { rice, <<" ","R","i","c","e"," ">>, chicken, dal, bread, honey, <<>> }

FoodLists == UNION {[1 .. n -> FoodNames] : n \in 0 .. MaxItems}

Reorderings(items) ==
  { [i \in DOMAIN items |-> items[p[i]]] :
      p \in {q \in [DOMAIN items -> DOMAIN items] :
               \A i, j \in DOMAIN items : i # j => q[i] # q[j]} }

Calculate ==
  \E food_items \in FoodLists :
    /\ request = NoRequest
    /\ request' = [op |-> "calculate_nutrients", food_items |-> food_items,
                   reordered |-> FALSE, first |-> NoNutrients]
    /\ result' = [status_code |-> 0, detail |-> "",
                  body |-> calculate_nutrients(food_items)]
    /\ UNCHANGED <<users, meals, now, before, issued_users, issued_meals, inflight>>

\* The second call keeps what the first returned.
Reorder ==
  /\ request.op = "calculate_nutrients"
  /\ ~request.reordered
  /\ \E food_items \in Reorderings(request.food_items) :
       /\ request' = [op |-> "calculate_nutrients", food_items |-> food_items,
                      reordered |-> TRUE, first |-> result.body]
       /\ result' = [status_code |-> 0, detail |-> "",
                     body |-> calculate_nutrients(food_items)]
       /\ UNCHANGED <<users, meals, now, before, issued_users, issued_meals, inflight>>

NextNutrients == Calculate \/ Reorder

SpecNutrients == Init /\ [][NextNutrients]_vars

(***************************************************************************)
(* GET /meals/{user} over two days: one user registers, meals are logged   *)
(* through /log_meals and through the webhook, the clock moves half a day  *)
(* at a time, and the list is asked for with and without a date.           *)
(***************************************************************************)
MaxHalfDays == 2

HalfDay == SecondsPerDay \div 2

Jan1 == <<"1","9","7","0","-","0","1","-","0","1">>
Jan2 == <<"1","9","7","0","-","0","1","-","0","2">>
Jan2Short == <<"1","9","7","0","-","1","-","2">>
Feb30 == <<"1","9","7","0","-","0","2","-","3","0">>
Jan1Slashes == <<"0","1","/","0","1","/","1","9","7","0">>

\* The `date` query parameter: absent, empty, dates, and texts that are not
\* dates.
ListedDates ==
  { None, Str(<<>>), Str(Jan1), Str(Jan2), Str(Jan2Short), Str(Feb30),
    Str(Jan1Slashes) }

ListedUsers == keys(users) \cup {"nonexistent_user"}

Records == Len(users) + Len(meals)

MealsRegister ==
  \E user_data \in UserRegistration :
    /\ users = <<>>
    /\ Handle([op |-> "register", user_data |-> user_data], register_user(user_data))

MealsLogMeals ==
  \E user \in keys(users) :
    /\ Records < MaxSize
    /\ Handle([op |-> "log_meals", user |-> user, meal |-> lunch, items |-> <<rice>>],
              log_meals([user |-> user, meal |-> lunch, items |-> <<rice>>]))

MealsWebhook ==
  LET message == log_prefix \o dinner \o <<":">> \o dal
  IN  /\ Records < MaxSize
      /\ Handle([op |-> "webhook", message |-> message],
                webhook_handler([message |-> message]))

MealsList ==
  \E user \in ListedUsers, date \in ListedDates :
    Handle([op |-> "meals", user |-> user, date |-> date], get_user_meals(user, date))

HalfDayPasses ==
  /\ now < MaxHalfDays * HalfDay
  /\ now' = now + HalfDay
  /\ UNCHANGED <<users, meals, request, result, before, issued_users, issued_meals,
               inflight>>

NextMeals ==
  MealsRegister \/ MealsLogMeals \/ MealsWebhook \/ MealsList \/ HalfDayPasses

SpecMeals == Init /\ [][NextMeals]_vars

(***************************************************************************)
(* Requests in flight.  Every handler is an `async def` with no `await` in *)
(* its body: once the event loop calls it, it runs to its return or raise  *)
(* before any other handler is called.  Requests are received in any       *)
(* number and order, and their handlers run one at a time, in any order.   *)
(***************************************************************************)
MaxInflight == 2

ConcurrentRequests ==
  { [op |-> "register", user_data |-> user_data] : user_data \in UserRegistration }
  \cup { [op |-> "log_meals", user |-> user, meal |-> lunch, items |-> <<rice>>] :
           user \in UserIds }
  \cup { [op |-> "webhook", message |-> message] :
           message \in {log_prefix \o dinner \o <<":">> \o dal, log_prefix \o lunch} }

\* The handler of the route a request is sent to.
route(req) ==
  CASE req.op = "register" -> register_user(req.user_data)
    [] req.op = "log_meals" ->
         log_meals([user |-> req.user, meal |-> req.meal, items |-> req.items])
    [] req.op = "webhook" -> webhook_handler([message |-> req.message])

Pending == BagCardinality(inflight)

Receive ==
  \E req \in ConcurrentRequests :
    /\ Pending < MaxInflight
    /\ Size + Pending < MaxSize
    /\ inflight' = inflight (+) SetToBag({req})
    /\ UNCHANGED <<users, meals, now, request, result, before, issued_users,
                   issued_meals>>

Run ==
  \E req \in BagToSet(inflight) :
    /\ Outcome(req, route(req))
    /\ inflight' = inflight (-) SetToBag({req})

SecondPasses ==
  /\ Size + Pending < MaxSize
  /\ now' = now + 1
  /\ UNCHANGED <<users, meals, request, result, before, issued_users, issued_meals,
                 inflight>>

NextConcurrent == Receive \/ Run \/ SecondPasses

SpecConcurrent == Init /\ [][NextConcurrent]_vars

(***************************************************************************)
(* Properties of the service.                                              *)
(***************************************************************************)
success == result.status_code \in {200, 201}

\* The nutrient totals the responses returned, added up in logging order.
RECURSIVE returned_total(_, _, _)
returned_total(logged, i, total) ==
  IF i > Len(logged) THEN total
  ELSE returned_total(logged, i + 1, AddNutrients(total, logged[i].nutrients))

logged_for(user) == SelectSeq(issued_meals, LAMBDA m : m.user_id = user)

\* C1: the status of a user in the registry succeeds, its consumed_nutrients
\* are, field by field, the sum of the totals returned when that user's
\* meals were logged, and total_meals is their number; the meals of other
\* users, the webhook's default user among them, add nothing.
C1_StatusSumsTheUsersMeals ==
  (request.op = "status" /\ request.user \in keys(users)) =>
    /\ result.status_code = 200
    /\ result.body.consumed_nutrients
         = returned_total(logged_for(request.user), 1, NoNutrients)
    /\ result.body.total_meals = Len(logged_for(request.user))

\* A status of a registered user with two meals while another user has one.
C1_Witness ==
  /\ request.op = "status"
  /\ request.user \in {issued_users[i] : i \in DOMAIN issued_users}
  /\ result.status_code = 200
  /\ result.body.total_meals = 2
  /\ Len(issued_meals) = 3
  /\ result.body.consumed_nutrients # NoNutrients

\* C2: a structured request for a user that is no key of the registry fails
\* with UserNotFound and stores nothing, whatever its meal and items; a
\* webhook request never fails with UserNotFound.
C2_UnknownUserIsRejected ==
  /\ (request.op = "log_meals" /\ request.user \notin keys(before.users)) =>
       /\ result.status_code = 404
       /\ result.detail = UserNotFound
       /\ meals = before.meals
       /\ users = before.users
  /\ request.op = "webhook" =>
       (result.status_code # 404 /\ result.detail # UserNotFound)

\* An unknown user together with an invalid meal type, meals being stored.
C2_Witness ==
  /\ request.op = "log_meals"
  /\ request.user \notin keys(before.users)
  /\ lower(request.meal) \notin valid_meals
  /\ result.detail = UserNotFound
  /\ meals # <<>>

NoDuplicates(seq) == \A i, j \in DOMAIN seq : i # j => seq[i] # seq[j]

Extends(d, d0) == Len(d) = Len(d0) + 1 /\ SubSeq(d, 1, Len(d0)) = d0

\* C3: no user identifier and no meal identifier is issued twice, and every
\* successful register, log_meals or webhook call adds exactly one record to
\* its dictionary and leaves the records already there as they were.
C3_IdentifiersAreNeverReused ==
  /\ NoDuplicates(issued_users)
  /\ NoDuplicates([i \in DOMAIN issued_meals |-> issued_meals[i].meal_id])
  /\ (request.op = "register" /\ success) => Extends(users, before.users)
  /\ (request.op \in {"log_meals", "webhook"} /\ success) => Extends(meals, before.meals)

\* Two registrations and two meals, all within one second.
C3_Witness ==
  /\ Len(issued_users) = 2
  /\ Len(issued_meals) = 2
  /\ now = 0
  /\ request.op \in {"log_meals", "webhook"}
  /\ success

\* C4: every stored meal's user_id is a key of the registry.
C4_MealsBelongToUsers ==
  \A i \in DOMAIN meals : meals[i].user_id \in keys(users)

\* A meal of each ingestion path is stored.
C4_Witness ==
  /\ \E i \in DOMAIN meals : meals[i].user_id = default_user
  /\ \E i \in DOMAIN meals : meals[i].user_id \in {issued_users[j] : j \in DOMAIN issued_users}

\* C6: a request answered with an error leaves both dictionaries as it found
\* them; a webhook message that is rejected does not provision the default
\* user.
C6_ErrorsChangeNothing ==
  result.status_code >= 400 => (users = before.users /\ meals = before.meals)

\* A rejected webhook message, the default user not being provisioned.
C6_Witness ==
  /\ request.op = "webhook"
  /\ result.status_code = 400
  /\ default_user \notin keys(users)
  /\ users # <<>>

InvalidFormat == {InvalidFormatPrefix, InvalidFormatParts}

unchanged_stores == users = before.users /\ meals = before.meals

Flatten(seqs) ==
  LET RECURSIVE flat(_)
      flat(i) == IF i > Len(seqs) THEN <<>> ELSE seqs[i] \o flat(i + 1)
  IN  flat(1)

Count(c, text) == Cardinality({i \in DOMAIN text : text[i] = c})

Trimmed(text) == text = <<>> \/ (text[1] \notin Whitespace /\ text[Len(text)] \notin Whitespace)

\* C5, as claimed: for every category text and every non-empty list of
\* non-empty, trimmed food names, /log_meals for an existing user and the
\* webhook with "log c: item1, item2, ..." both succeed or both fail with
\* InvalidMealType, and when they succeed they return the same totals and
\* store the same meal_type, food_items and nutrients.
PathsAgree ==
  /\ (request.logged.status_code = 201) <=> (result.status_code = 200)
  /\ request.logged.status_code # 201 =>
       (request.logged.detail = InvalidMealType /\ result.detail = InvalidMealType
        /\ meals = <<>>)
  /\ request.logged.status_code = 201 =>
       /\ result.body.nutrients = request.logged.body.nutrients
       /\ Len(meals) = 2
       /\ meals[1].meal_type = meals[2].meal_type
       /\ meals[1].food_items = meals[2].food_items
       /\ meals[1].nutrients = meals[2].nutrients
       /\ meals[1].id # meals[2].id

C5_Original ==
  request.op = "webhook" => PathsAgree

\* C5, amended: the same, for a category text without surrounding
\* whitespace and without a colon, and food names without a comma.
C5_PathsAgreeOnPlainTexts ==
  (/\ request.op = "webhook"
   /\ Trimmed(request.meal)
   /\ Count(":", request.meal) = 0
   /\ \A i \in DOMAIN request.items : Count(",", request.items[i]) = 0)
  => PathsAgree

\* Both paths stored a meal of several items whose category was typed with
\* a capital.
C5_Witness ==
  /\ request.op = "webhook"
  /\ result.status_code = 200
  /\ request.logged.status_code = 201
  /\ Len(request.items) > 1
  /\ request.meal # lower(request.meal)
  /\ Count(":", Flatten(request.items)) > 0

\* C7, as claimed: a message whose first four characters, as submitted,
\* are not "log " fails with InvalidFormat and stores no meal.
C7_Original ==
  (request.op = "webhook" /\ ~startswith(request.message, log_prefix)) =>
    (result.detail \in InvalidFormat /\ unchanged_stores)

\* C7, amended: a message that, once its surrounding whitespace is removed,
\* does not start with the case-sensitive "log " fails with InvalidFormat
\* and stores no meal; a message is accepted only if its trimmed text
\* starts with "log ".
C7_TrimmedPrefixIsRequired ==
  (request.op = "webhook" /\ ~startswith(strip(request.message), log_prefix)) =>
    (result.status_code = 400 /\ result.detail \in InvalidFormat /\ unchanged_stores)

\* "Log lunch: ..." is rejected.
C7_Witness ==
  /\ request.op = "webhook"
  /\ startswith(request.message, <<"L","o","g"," ">>)
  /\ Count(":", request.message) = 1
  /\ result.detail = InvalidFormatPrefix

\* What follows the prefix of a message that has it.
remainder == slice_from(strip(request.message), Len(log_prefix))

HasPrefix == request.op = "webhook" /\ startswith(strip(request.message), log_prefix)

FirstColon == CHOOSE i \in DOMAIN remainder :
                remainder[i] = ":" /\ \A j \in 1 .. i - 1 : remainder[j] # ":"

LeftPart == SubSeq(remainder, 1, FirstColon - 1)
RightPart == SubSeq(remainder, FirstColon + 1, Len(remainder))

\* C8, as claimed: with no colon after the prefix, or with nothing before or
\* nothing after the first colon, the webhook fails with InvalidFormat and
\* stores no meal.
C8_Original ==
  (HasPrefix /\ (Count(":", remainder) = 0 \/ LeftPart = <<>> \/ RightPart = <<>>)) =>
    (result.detail \in InvalidFormat /\ unchanged_stores)

\* C8, amended: the remainder is split on its first colon only.  Without a
\* colon the webhook fails with InvalidFormat; with nothing before the first
\* colon it fails with InvalidMealType; with a valid category and nothing
\* after the first colon it fails with NoFoodItems; in all three cases no
\* meal is stored.  With a valid category before the first colon and a food
\* name after it the message is accepted, the later colons being part of the
\* food-item text.
C8_SplitOnFirstColon ==
  HasPrefix =>
    IF Count(":", remainder) = 0
    THEN result.detail = InvalidFormatParts /\ unchanged_stores
    ELSE IF strip(LeftPart) = <<>>
    THEN result.detail = InvalidMealType /\ unchanged_stores
    ELSE IF lower(strip(LeftPart)) \notin valid_meals
    THEN result.detail = InvalidMealType /\ unchanged_stores
    ELSE IF \A i \in DOMAIN RightPart : RightPart[i] \in Whitespace \cup {","}
    THEN result.detail = NoFoodItems /\ unchanged_stores
    ELSE /\ result.status_code = 200
         /\ result.body.meal_type = lower(strip(LeftPart))
         /\ Count(":", Flatten(result.body.food_items)) = Count(":", remainder) - 1

\* An accepted message with a second colon, which ends up in a food name.
C8_Witness ==
  /\ HasPrefix
  /\ result.status_code = 200
  /\ Count(":", remainder) = 2
  /\ \E i \in DOMAIN result.body.food_items : Count(":", result.body.food_items[i]) = 1

\* The comma-separated tokens of a text, read left to right: each trimmed,
\* the empty ones left out.
RECURSIVE TokensFrom(_, _, _)
TokensFrom(text, i, token) ==
  LET done == IF strip(token) = <<>> THEN <<>> ELSE <<strip(token)>>
  IN  IF i > Len(text) THEN done
      ELSE IF text[i] = "," THEN done \o TokensFrom(text, i + 1, <<>>)
      ELSE TokensFrom(text, i + 1, Append(token, text[i]))

\* C9: the food items of an accepted message are the comma-separated tokens
\* of the part after the first colon, trimmed, the empty ones removed, in
\* their order and casing, in the response and in the stored meal; a message
\* with a valid category and no token left fails with NoFoodItems and stores
\* no meal.
C9_FoodItemsAreTheTokens ==
  /\ (HasPrefix /\ result.status_code = 200) =>
       /\ result.body.food_items = TokensFrom(RightPart, 1, <<>>)
       /\ meals[Len(meals)].food_items = TokensFrom(RightPart, 1, <<>>)
  /\ (/\ HasPrefix
      /\ Count(":", remainder) > 0
      /\ lower(strip(LeftPart)) \in valid_meals
      /\ TokensFrom(RightPart, 1, <<>>) = <<>>) =>
       (result.detail = NoFoodItems /\ unchanged_stores)

\* An accepted message with an empty token, padded tokens and capitals.
C9_Witness ==
  /\ HasPrefix
  /\ result.status_code = 200
  /\ Len(result.body.food_items) = 2
  /\ Count(",", RightPart) = 2
  /\ Count(" ", RightPart) > Count(" ", Flatten(result.body.food_items))
  /\ lower(Flatten(result.body.food_items)) # Flatten(result.body.food_items)

\* C10, as claimed: calculate_nutrients returns the same totals for every
\* order of its input; names that are not in food_database add nothing, and
\* the empty list yields zeros.
C10_Original ==
  request.op = "calculate_nutrients" =>
    /\ (request.food_items = <<>> => result.body = NoNutrients)
    /\ (request.reordered => result.body = request.first)

\* The texts among ListedDates that name a date, and the day each names,
\* counted from 1970-01-01.
DateTexts == {Jan1, Jan2, Jan2Short}

CalendarDay(text) == IF text = Jan1 THEN 0 ELSE 1

OnDay(meal, day) ==
  /\ day * SecondsPerDay <= meal.logged_at
  /\ meal.logged_at < (day + 1) * SecondsPerDay

\* The stored meals of a user, in insertion order, those of the day the
\* date names when there is a date.
Listed(user, date) ==
  Flatten([i \in DOMAIN meals |->
             IF meals[i].user_id = user
                /\ (date.is_none \/ OnDay(meals[i], CalendarDay(date.str)))
             THEN <<meals[i]>> ELSE <<>>])

\* C11: for a user of the registry, get_user_meals without a date returns
\* the stored meals of that user in insertion order; with a date it returns
\* those of them logged on that calendar day, whatever the time of day, and
\* no meal of another day; total_meals is the length of the returned list.
C11_ListIsTheUsersMealsOfTheDay ==
  (/\ request.op = "meals"
   /\ request.user \in keys(users)
   /\ (request.date.is_none \/ request.date.str \in DateTexts))
  => /\ result.status_code = 200
     /\ result.body.user = request.user
     /\ result.body.meals = Listed(request.user, request.date)
     /\ result.body.total_meals = Len(result.body.meals)

\* The list of the first day holds one meal, logged at noon; the same user
\* has a meal of the next day, and another user has a meal of the first day.
C11_Witness ==
  /\ request.op = "meals"
  /\ ~request.date.is_none
  /\ request.date.str = Jan1
  /\ result.status_code = 200
  /\ result.body.total_meals = 1
  /\ result.body.meals[1].logged_at = HalfDay
  /\ \E i \in DOMAIN meals :
       meals[i].user_id = request.user /\ OnDay(meals[i], 1)
  /\ \E i \in DOMAIN meals :
       meals[i].user_id # request.user /\ OnDay(meals[i], 0)

\* C12, as claimed: for a user of the registry, every date text that is not
\* a date, the empty text among them, is answered with 400 and "Invalid date
\* format. Use YYYY-MM-DD", whether the user has meals or not.
C12_Original ==
  (/\ request.op = "meals"
   /\ request.user \in keys(users)
   /\ ~request.date.is_none
   /\ request.date.str \notin DateTexts)
  => /\ result.status_code = 400
     /\ result.detail = InvalidDateFormat

IsPrefix(d0, d) == Len(d0) <= Len(d) /\ SubSeq(d, 1, Len(d0)) = d0

\* C13: no request changes or removes a stored user or meal: each
\* dictionary only grows at its end.  The record a registration stores holds
\* the identifier and the BMR it returns, the record a logged meal stores
\* holds the nutrients returned, and a status returns the BMR the registry
\* already held for that user.
C13_RecordsAreAppendOnly ==
  [][/\ IsPrefix(users, users')
     /\ IsPrefix(meals, meals')
     /\ (request'.op = "register" /\ Len(users') > Len(users)) =>
          /\ users'[Len(users')].id = result'.body.user_id
          /\ users'[Len(users')].bmr = result'.body.bmr
     /\ (request'.op \in {"log_meals", "webhook"} /\ Len(meals') > Len(meals)) =>
          /\ meals'[Len(meals')].id = result'.body.meal_id
          /\ meals'[Len(meals')].nutrients = result'.body.nutrients
     /\ (request'.op = "status" /\ result'.status_code = 200) =>
          \E i \in DOMAIN users :
            /\ users[i].id = request'.user
            /\ result'.body.user_info.bmr = users[i].bmr]_vars

\* The status of the first registered user, asked for after a second user
\* and a meal were stored and the clock moved on.
C13_Witness ==
  /\ request.op = "status"
  /\ result.status_code = 200
  /\ Len(users) >= 2
  /\ request.user = users[1].id
  /\ users[1].id = issued_users[1]
  /\ meals # <<>>
  /\ now > users[1].created_at

Idle == inflight = EmptyBag

\* C14: whatever the order in which the received register, log_meals and
\* webhook requests are handled, no identifier is returned twice and every
\* returned identifier is the key of a stored record; once no request is in
\* flight there are as many stored meals as successful log_meals and webhook
\* responses, and as many stored users as successful registrations, plus the
\* default user when it was provisioned.
C14_NoIdentifierSharedNoInsertionLost ==
  /\ NoDuplicates(issued_users)
  /\ NoDuplicates([i \in DOMAIN issued_meals |-> issued_meals[i].meal_id])
  /\ \A i \in DOMAIN issued_users : issued_users[i] \in keys(users)
  /\ \A i \in DOMAIN issued_meals : issued_meals[i].meal_id \in keys(meals)
  /\ Idle =>
       /\ Len(meals) = Len(issued_meals)
       /\ Len(users) = Len(issued_users)
                       + (IF default_user \in keys(users) THEN 1 ELSE 0)

\* A registration, a log_meals and a webhook request were received and
\* handled within one second, and none is in flight.
C14_Witness ==
  /\ Idle
  /\ now = 0
  /\ Len(issued_users) = 1
  /\ Len(issued_meals) = 2
  /\ default_user \in keys(users)
  /\ \E i \in DOMAIN meals : meals[i].user_id # default_user

\* The record the webhook stores for its identity when it provisions it.
Placeholder(created_at) ==
  [id |-> "webhook_user", name |-> "Webhook User", age |-> 25, weight |-> 700,
   height |-> 1700, gender |-> "male", goal |-> "general", bmr |-> 170006,
   created_at |-> created_at]

Provisioned(us) == \E i \in DOMAIN us : us[i].id = "webhook_user"

\* C15: the registry holds no "webhook_user" at the start and never more
\* than one; the record appears only in a step that is a webhook call
\* answered with 200, as the placeholder stamped with the time of that call;
\* once stored no step changes it; and every webhook call answered with 200
\* finds or leaves the identity in the registry and stores its meal under
\* it.
C15_DefaultUserProvisionedOnce ==
  [][/\ Cardinality({i \in DOMAIN users' : users'[i].id = "webhook_user"}) <= 1
     /\ (~Provisioned(users) /\ Provisioned(users')) =>
          /\ request'.op = "webhook"
          /\ result'.status_code = 200
          /\ users' = Append(users, Placeholder(now))
     /\ Provisioned(users) =>
          \E i \in DOMAIN users :
            users[i].id = "webhook_user" /\ users'[i] = users[i]
     /\ (request'.op = "webhook" /\ result'.status_code = 200
         /\ Len(meals') > Len(meals)) =>
          /\ Provisioned(users')
          /\ meals'[Len(meals')].user_id = "webhook_user"]_vars

\* A second webhook meal is logged after a user registered and the clock
\* moved on; the default user is still the record of the first call.
C15_Witness ==
  /\ request.op = "webhook"
  /\ result.status_code = 200
  /\ Provisioned(users)
  /\ getitem(users, default_user).created_at < now
  /\ Len(SelectSeq(meals, LAMBDA meal : meal.user_id = default_user)) >= 2
  /\ meals[Len(meals)].logged_at = now
  /\ \E i \in DOMAIN users : users[i].id # default_user

=============================================================================
